---- MODULE Spec2Model ----
(***************************************************************************)
(* Model of src/chat-frontend/app.tsx: the App component of the chat       *)
(* frontend.  The state is the three React state cells (messages, input,   *)
(* loading), the invocations of handleSend that are suspended at an await, *)
(* and the part of the rendered page that gates user events (the disabled  *)
(* props of the field and of the button).                                  *)
(*                                                                         *)
(* Text is a sequence of code points, a response chunk a sequence of       *)
(* bytes.                                                                  *)
(***************************************************************************)
EXTENDS Integers, Sequences, FiniteSets, TLC

VARIABLES
    messages,   \* useState<Message[]>([])            app.tsx:18
    input,      \* useState("")                       app.tsx:19
    loading,    \* useState(false)                    app.tsx:20
    calls,      \* the invocations of handleSend that passed line 24, in order
    requests,   \* the HTTP requests issued by fetch (line 36), in order
    dom,        \* what the last render put on the page (disabled props)
    chat,       \* what the last render put in the chat area (one block per message)
    event       \* the event whose handler (or continuation) ran last

vars == <<messages, input, loading, calls, requests, dom, chat, event>>

----------------------------------------------------------------------------
(* Bounds of the model *)

MaxSends == 2       \* handleSend invocations that get past line 24
MaxChunks == 2      \* chunks one response body delivers

----------------------------------------------------------------------------
(* Values *)

\* enum MessageType { USER, SYSTEM }
USER == 0
SYSTEM == 1

\* "Something went wrong. Please try later."
ErrorText ==
    <<83, 111, 109, 101, 116, 104, 105, 110, 103, 32, 119, 101, 110, 116, 32,
      119, 114, 111, 110, 103, 46, 32, 80, 108, 101, 97, 115, 101, 32, 116,
      114, 121, 32, 108, 97, 116, 101, 114, 46>>

\* The code points String.prototype.trim removes (white space and line
\* terminators of the Basic Latin and Latin-1 blocks).
WhiteSpace == {9, 10, 11, 12, 13, 32, 160}

\* U+FFFD, what TextDecoder puts for a malformed byte sequence.
Replacement == 65533

\* The texts the user puts in the field: "", " ", "a" and " a".
InputTexts == {<<>>, <<32>>, <<97>>, <<32, 97>>}

\* The chunks a body delivers: the bytes of "a" and U+00E9 together, and the
\* lead byte of U+00E9 alone (a character split over two chunks).  A body
\* stream delivers no empty chunk.
Chunks == {<<97, 195, 169>>, <<195>>}

Statuses == {200, 500}

Keys == {"Enter", "a"}

----------------------------------------------------------------------------
(* Pure functions *)

RECURSIVE TrimStart(_)
TrimStart(s) ==
    IF s = <<>> THEN <<>>
    ELSE IF Head(s) \in WhiteSpace THEN TrimStart(Tail(s)) ELSE s

RECURSIVE TrimEnd(_)
TrimEnd(s) ==
    IF s = <<>> THEN <<>>
    ELSE IF s[Len(s)] \in WhiteSpace THEN TrimEnd(SubSeq(s, 1, Len(s) - 1)) ELSE s

TrimIdentity(s) == s

\* input.trim()
Trim(s) == TrimEnd(TrimStart(s))

\* new TextDecoder().decode(value), without {stream: true}: every call
\* decodes its bytes on their own.  One- and two-byte UTF-8 sequences; a lead
\* byte without its continuation and a continuation byte without a lead
\* each give U+FFFD.
RECURSIVE decode(_)
decode(b) ==
    IF b = <<>> THEN <<>>
    ELSE IF b[1] < 128 THEN <<b[1]>> \o decode(Tail(b))
    ELSE IF b[1] \in 194..223 /\ Len(b) >= 2 /\ b[2] \in 128..191
         THEN <<(b[1] - 192) * 64 + (b[2] - 128)>> \o decode(SubSeq(b, 3, Len(b)))
    ELSE <<Replacement>> \o decode(Tail(b))

RECURSIVE Concat(_)
Concat(ss) == IF ss = <<>> THEN <<>> ELSE Head(ss) \o Concat(Tail(ss))

Message(t, txt) == [type |-> t, text |-> txt]

Last(s) == s[Len(s)]

----------------------------------------------------------------------------
(* Rendering *)

\* The field rendered without its disabled prop.
RenderFieldEnabled(ld, inp) ==
    [inputDisabled |-> FALSE,
     buttonDisabled |-> (ld \/ Trim(inp) = <<>>)]

\* The button rendered with disabled={loading}.
RenderButtonLoadingOnly(ld, inp) ==
    [inputDisabled |-> ld,
     buttonDisabled |-> ld]

\* <Input ... disabled={loading} />                     app.tsx:133
\* <Button ... disabled={loading || !input.trim()}>     app.tsx:135
Render(ld, inp) ==
    [inputDisabled |-> ld,
     buttonDisabled |-> (ld \/ Trim(inp) = <<>>)]

\* The white space a markdown paragraph drops at its ends.
MdSpace == {9, 32}

RECURSIVE StripStart(_)
StripStart(s) ==
    IF s = <<>> THEN <<>>
    ELSE IF Head(s) \in MdSpace THEN StripStart(Tail(s)) ELSE s

RECURSIVE StripEnd(_)
StripEnd(s) ==
    IF s = <<>> THEN <<>>
    ELSE IF s[Len(s)] \in MdSpace THEN StripEnd(SubSeq(s, 1, Len(s) - 1)) ELSE s

\* <ReactMarkdown>{text}</ReactMarkdown> on the texts of the model, which hold
\* letters, spaces, U+00E9, U+FFFD and full stops on one line (no markup
\* character and no line break): a blank text gives no element, any other
\* text one paragraph without the white space at its ends.
Markdown(text) ==
    IF StripStart(text) = <<>> THEN <<>>
    ELSE <<[tag |-> "p", text |-> StripEnd(StripStart(text))]>>

\* The text as it is, in one preformatted element.
Literal(text) == <<[tag |-> "pre", text |-> text]>>

\* A block that gives only SYSTEM text to ReactMarkdown.
BlockUserLiteral(msg) ==
    [user |-> (msg.type = USER),
     icon |-> (msg.type = SYSTEM),
     content |-> IF msg.type = USER THEN Literal(msg.text) ELSE Markdown(msg.text)]

\* Lines 106-122: the block of one message.  The class and the SparkleIcon
\* depend on msg.type; the text of every message goes through ReactMarkdown.
Block(msg) ==
    [user |-> (msg.type = USER),
     icon |-> (msg.type = SYSTEM),
     content |-> Markdown(msg.text)]

\* Lines 91-125: the welcome panel for an empty conversation, otherwise
\* messages.map: one block per message, in order.
RenderChat(msgs) ==
    [welcome |-> (Len(msgs) = 0),
     blocks |-> [k \in 1..Len(msgs) |-> Block(msgs[k])]]

----------------------------------------------------------------------------
(* handleSend *)

\* One suspended invocation of handleSend.  pc is the await it is at:
\* "fetch" (line 36), "read" (line 55), "done" (returned after line 82),
\* "rejected" (left by a rejected await).  prompt is the body sent, response
\* the local of line 35, status and body the Response once fetch resolved,
\* delivered the chunks reader.read() has returned so far.
NewCall(p) ==
    [pc |-> "fetch", prompt |-> p, response |-> <<>>, status |-> 0,
     body |-> FALSE, delivered |-> <<>>]

\* Lines 36-40: fetch(`${VITE_CHAT_BACKEND}/chat`, {method: "POST",
\* headers: {"Content-Type": "application/json"}, body: {prompt: input}}).
Request(p) ==
    [method |-> "POST", path |-> "/chat",
     contentType |-> "application/json", prompt |-> p]

InFlight == {i \in 1..Len(calls) : calls[i].pc \in {"fetch", "read"}}

\* handleSend appending the trimmed text.
HandleSendTrimmed ==
    IF Trim(input) = <<>>
    THEN UNCHANGED <<messages, input, loading, calls, requests>>
    ELSE /\ loading' = TRUE
         /\ messages' = Append(messages, Message(USER, Trim(input)))
         /\ calls' = Append(calls, NewCall(input))
         /\ requests' = Append(requests, Request(input))
         /\ UNCHANGED input

\* handleSend sending the trimmed text as the prompt.
HandleSendPromptTrimmed ==
    IF Trim(input) = <<>>
    THEN UNCHANGED <<messages, input, loading, calls, requests>>
    ELSE /\ loading' = TRUE
         /\ messages' = Append(messages, Message(USER, input))
         /\ calls' = Append(calls, NewCall(input))
         /\ requests' = Append(requests, Request(Trim(input)))
         /\ UNCHANGED input

\* handleSend with setInput("") at submission.
HandleSendClearsInput ==
    IF Trim(input) = <<>>
    THEN UNCHANGED <<messages, input, loading, calls, requests>>
    ELSE /\ loading' = TRUE
         /\ messages' = Append(messages, Message(USER, input))
         /\ calls' = Append(calls, NewCall(input))
         /\ requests' = Append(requests, Request(input))
         /\ input' = <<>>

\* Lines 23-40: the synchronous part of handleSend, up to the first await.
\* fetch is called (the request is issued) before handleSend suspends.
HandleSend ==
    IF Trim(input) = <<>>
    THEN UNCHANGED <<messages, input, loading, calls, requests>>
    ELSE /\ loading' = TRUE
         /\ messages' = Append(messages, Message(USER, input))
         /\ calls' = Append(calls, NewCall(input))
         /\ requests' = Append(requests, Request(input))
         /\ UNCHANGED input

\* Completion without setInput("").
FinishKeepInput ==
    /\ loading' = FALSE
    /\ UNCHANGED input

\* Completion without setLoading(false).
FinishKeepLoading ==
    /\ UNCHANGED loading
    /\ input' = <<>>

\* Lines 81-82.
Finish ==
    /\ loading' = FALSE
    /\ input' = <<>>

\* The updater without the replacement branch: one message per chunk.
StreamUpdateAppend(msgs, response) ==
    Append(msgs, Message(SYSTEM, response))

\* The updater with `if (last)` for `if (last && last.type === SYSTEM)`.
StreamUpdateReplaceAny(msgs, response) ==
    IF Len(msgs) > 0
    THEN Append(SubSeq(msgs, 1, Len(msgs) - 1), Message(SYSTEM, response))
    ELSE Append(msgs, Message(SYSTEM, response))

\* `response = chunk` for `response += chunk`.
AccumulateOverwrite(response, chunk) == decode(chunk)

\* Lines 58-59: response += decoder.decode(value).
Accumulate(response, chunk) == response \o decode(chunk)

\* Lines 60-69: the updater given to setMessages for one chunk.
StreamUpdate(msgs, response) ==
    IF Len(msgs) > 0 /\ Last(msgs).type = SYSTEM
    THEN Append(SubSeq(msgs, 1, Len(msgs) - 1), Message(SYSTEM, response))
    ELSE Append(msgs, Message(SYSTEM, response))

\* `&&` for `||` in line 42.
FailedBoth(status, body) == status # 200 /\ ~body

\* Line 42: res.status != 200 || !res.body.
Failed(status, body) == status # 200 \/ ~body

Rerender ==
    /\ dom' = Render(loading', input')
    /\ chat' = RenderChat(messages')

----------------------------------------------------------------------------
Init ==
    /\ messages = <<>>
    /\ input = <<>>
    /\ loading = FALSE
    /\ calls = <<>>
    /\ requests = <<>>
    /\ dom = Render(FALSE, <<>>)
    /\ chat = RenderChat(<<>>)
    /\ event = "init"

(* User events.  The browser delivers no event to a disabled control. *)

\* onChange={(e) => setInput(e.target.value)}
OnChange(v) ==
    /\ ~dom.inputDisabled
    /\ input' = v
    /\ UNCHANGED <<messages, loading, calls, requests>>
    /\ Rerender
    /\ event' = "change"

\* onKeyDown={(e) => e.key === "Enter" && handleSend()}
OnKeyDown(key) ==
    /\ ~dom.inputDisabled
    /\ key = "Enter" => Trim(input) = <<>> \/ Len(calls) < MaxSends
    /\ IF key = "Enter" THEN HandleSend
                        ELSE UNCHANGED <<messages, input, loading, calls, requests>>
    /\ Rerender
    /\ event' = IF key = "Enter" THEN "keydownEnter" ELSE "keydown"

\* <Button onClick={handleSend} ...>
OnClick ==
    /\ ~dom.buttonDisabled
    /\ Len(calls) < MaxSends
    /\ HandleSend
    /\ Rerender
    /\ event' = "click"

(* Continuations of handleSend *)

\* Lines 36-52 and 81-82: fetch resolves with a Response.
FetchResolve(i, status, body) ==
    /\ calls[i].pc = "fetch"
    /\ IF Failed(status, body)
       THEN /\ messages' = Append(messages, Message(SYSTEM, ErrorText))
            /\ Finish
            /\ calls' = [calls EXCEPT ![i].pc = "done", ![i].status = status,
                                      ![i].body = body]
       ELSE /\ calls' = [calls EXCEPT ![i].pc = "read", ![i].status = status,
                                      ![i].body = body]
            /\ UNCHANGED <<messages, input, loading>>
    /\ UNCHANGED requests
    /\ Rerender
    /\ event' = "fetchResolve"

\* The read loop with setLoading(false) as soon as a chunk arrives.
ReadChunkStopsLoading(i, chunk) ==
    /\ calls[i].pc = "read"
    /\ Len(calls[i].delivered) < MaxChunks
    /\ LET response == Accumulate(calls[i].response, chunk)
       IN /\ messages' = StreamUpdate(messages, response)
          /\ calls' = [calls EXCEPT ![i].response = response,
                                    ![i].delivered = Append(@, chunk)]
    /\ loading' = FALSE
    /\ UNCHANGED <<input, requests>>
    /\ Rerender
    /\ event' = "chunk"

\* Lines 55-77: reader.read() resolves with {value: chunk, done: false}.
ReadChunk(i, chunk) ==
    /\ calls[i].pc = "read"
    /\ Len(calls[i].delivered) < MaxChunks
    /\ LET response == Accumulate(calls[i].response, chunk)
       IN /\ messages' = StreamUpdate(messages, response)
          /\ calls' = [calls EXCEPT ![i].response = response,
                                    ![i].delivered = Append(@, chunk)]
    /\ UNCHANGED <<input, loading, requests>>
    /\ Rerender
    /\ event' = "chunk"

\* Lines 55-57, 78, 81-82: reader.read() resolves with
\* {value: undefined, done: true}.
ReadDone(i) ==
    /\ calls[i].pc = "read"
    /\ Finish
    /\ calls' = [calls EXCEPT ![i].pc = "done"]
    /\ UNCHANGED <<messages, requests>>
    /\ Rerender
    /\ event' = "readDone"

\* Line 36: the promise of fetch rejects; handleSend has no try/catch.
FetchReject(i) ==
    /\ calls[i].pc = "fetch"
    /\ calls' = [calls EXCEPT ![i].pc = "rejected"]
    /\ UNCHANGED <<messages, input, loading, requests>>
    /\ Rerender
    /\ event' = "fetchReject"

\* A rejected read caught: the failure text appended, lines 81-82 run.
ReadRejectHandled(i) ==
    /\ calls[i].pc = "read"
    /\ calls' = [calls EXCEPT ![i].pc = "rejected"]
    /\ messages' = Append(messages, Message(SYSTEM, ErrorText))
    /\ Finish
    /\ UNCHANGED requests
    /\ Rerender
    /\ event' = "readReject"

\* Line 55: the promise of reader.read() rejects; handleSend has no try/catch.
ReadReject(i) ==
    /\ calls[i].pc = "read"
    /\ calls' = [calls EXCEPT ![i].pc = "rejected"]
    /\ UNCHANGED <<messages, input, loading, requests>>
    /\ Rerender
    /\ event' = "readReject"

Next ==
    \/ \E v \in InputTexts : OnChange(v)
    \/ \E key \in Keys : OnKeyDown(key)
    \/ OnClick
    \/ \E i \in 1..Len(calls) : \E status \in Statuses : \E body \in BOOLEAN :
          FetchResolve(i, status, body)
    \/ \E i \in 1..Len(calls) : \E chunk \in Chunks : ReadChunk(i, chunk)
    \/ \E i \in 1..Len(calls) : ReadDone(i)
    \/ \E i \in 1..Len(calls) : FetchReject(i)
    \/ \E i \in 1..Len(calls) : ReadReject(i)

Spec == Init /\ [][Next]_vars

----------------------------------------------------------------------------
(* The handler reached past the disabled prop.  The disabled attribute     *)
(* keeps the user's keyboard from the field, but the handler of line 131   *)
(* has no guard of its own: a keydown event dispatched on the field while  *)
(* it is disabled runs handleSend (React withholds only mouse events from  *)
(* disabled controls).                                                     *)

DispatchEnter ==
    /\ dom.inputDisabled
    /\ Trim(input) = <<>> \/ Len(calls) < MaxSends
    /\ HandleSend
    /\ Rerender
    /\ event' = "dispatchEnter"

NextDirect == Next \/ DispatchEnter

SpecDirect == Init /\ [][NextDirect]_vars

----------------------------------------------------------------------------
(* Definitions the properties are stated with *)

\* s is empty or holds white space only.
IsBlank(s) == \A k \in 1..Len(s) : s[k] \in WhiteSpace

SendEvents == {"keydownEnter", "click"}

\* The position in messages of the USER message of the i-th send.
ExchangeStart(i) ==
    CHOOSE k \in 1..Len(messages) :
        /\ messages[k].type = USER
        /\ Cardinality({j \in 1..k : messages[j].type = USER}) = i

DecodeAll(chunks) == [k \in 1..Len(chunks) |-> decode(chunks[k])]

\* The sends whose 200 response ended without delivering a chunk.
EmptyExchanges ==
    {i \in 1..Len(calls) :
        /\ calls[i].pc = "done"
        /\ calls[i].status = 200 /\ calls[i].body
        /\ calls[i].delivered = <<>>}

AllDone == \A i \in 1..Len(calls) : calls[i].pc = "done"

Alternating ==
    \A k \in 1..Len(messages) :
        messages[k].type = (IF k % 2 = 1 THEN USER ELSE SYSTEM)

----------------------------------------------------------------------------
(* C1: whenever handleSend is invoked while loading is true it is a no-op: *)
(* messages, input and loading stay as they are and no request is issued   *)
(* (no invocation is added to calls).                                      *)
C1_SendWhileLoadingIsNoOp ==
    [][(event' = "dispatchEnter" /\ loading)
        => UNCHANGED <<messages, input, loading, calls, requests>>]_vars

(* C2: once the stream of a 200 response that delivered chunks C1..Cn      *)
(* (n >= 1) is exhausted, the SYSTEM message of that exchange, the message *)
(* after the exchange's USER message, has as text the decoded chunks       *)
(* concatenated in order.                                                  *)
C2_FinalTextIsConcatenation ==
    \A i \in 1..Len(calls) :
        (calls[i].pc = "done" /\ calls[i].delivered # <<>>)
        => /\ ExchangeStart(i) + 1 <= Len(messages)
           /\ messages[ExchangeStart(i) + 1] =
                 Message(SYSTEM, Concat(DecodeAll(calls[i].delivered)))

C2_Witness ==
    \E i \in 1..Len(calls) :
        /\ calls[i].pc = "done"
        /\ calls[i].delivered = << <<195>>, <<97, 195, 169>> >>
        /\ messages[ExchangeStart(i) + 1].text = <<Replacement, 97, 233>>

(* C3, as claimed: after k completed exchanges the conversation has        *)
(* exactly 2k messages, alternating USER, SYSTEM.                          *)
C3_TwoMessagesPerExchange ==
    AllDone => (Len(messages) = 2 * Len(calls) /\ Alternating)

(* C3, amended: a completed exchange adds exactly one SYSTEM message when  *)
(* it failed or its response delivered at least one chunk, and none when   *)
(* its 200 response ended without a chunk.  After k completed exchanges, e *)
(* of them empty, the conversation has 2k - e messages: the USER message   *)
(* of each exchange, followed by its SYSTEM message unless it was empty.   *)
C3_OneSystemMessagePerNonEmptyExchange ==
    AllDone =>
        /\ Len(messages) = 2 * Len(calls) - Cardinality(EmptyExchanges)
        /\ \A i \in 1..Len(calls) :
              /\ messages[ExchangeStart(i)] = Message(USER, calls[i].prompt)
              /\ i \notin EmptyExchanges
                    => /\ ExchangeStart(i) + 1 <= Len(messages)
                       /\ messages[ExchangeStart(i) + 1].type = SYSTEM

C3_Witness ==
    /\ AllDone
    /\ Len(calls) = 2
    /\ EmptyExchanges = {1}
    /\ Len(calls[2].delivered) = 2
    /\ Len(messages) = 3

(* C4: when fetch resolves with a status other than 200 or without a body, *)
(* that step appends exactly one SYSTEM message with the failure text      *)
(* directly after the exchange's USER message, and the exchange is over    *)
(* without a read of the body.                                             *)
C4_FailureAppendsFixedText ==
    [][\A i \in 1..Len(calls) :
          (/\ event' = "fetchResolve"
           /\ calls[i].pc = "fetch" /\ calls'[i].pc # "fetch"
           /\ (calls'[i].status # 200 \/ ~calls'[i].body))
          => /\ messages' = Append(messages, Message(SYSTEM, ErrorText))
             /\ Last(messages) = Message(USER, calls[i].prompt)
             /\ calls'[i].pc = "done"
             /\ calls'[i].delivered = <<>>]_vars

C4_Witness ==
    /\ event = "fetchResolve"
    /\ Len(calls) = 2
    /\ calls[2].pc = "done" /\ calls[2].status = 200 /\ ~calls[2].body
    /\ Len(messages) = 4
    /\ messages[3] = Message(USER, calls[2].prompt)
    /\ messages[4] = Message(SYSTEM, ErrorText)

(* C5: the step that completes an exchange, by stream exhaustion or by the *)
(* failure branch, leaves loading false and the input buffer empty.        *)
C5_CompletionResets ==
    [][\A i \in 1..Len(calls) :
          (calls[i].pc # "done" /\ calls'[i].pc = "done")
          => (loading' = FALSE /\ input' = <<>>)]_vars

C5_Witness ==
    /\ event = "readDone"
    /\ calls[Len(calls)].pc = "done"
    /\ calls[Len(calls)].prompt = <<32, 97>>
    /\ ~loading
    /\ input = <<>>

(* C6: one invocation of handleSend while loading is false, on an input    *)
(* that is not blank, appends exactly one USER message with the raw input  *)
(* as text at the end of the conversation, all earlier messages unchanged. *)
C6_SendAppendsRawInput ==
    [][(event' \in SendEvents /\ ~loading /\ ~IsBlank(input))
        => messages' = Append(messages, Message(USER, input))]_vars

C6_Witness ==
    /\ event = "keydownEnter"
    /\ Len(messages) = 3
    /\ messages[3] = Message(USER, <<32, 97>>)
    /\ calls[2].pc = "fetch"

(* C7: invoking handleSend on an empty or white-space-only input changes   *)
(* nothing: messages, loading and input stay as they are and no request is *)
(* issued.                                                                 *)
C7_BlankSendIsNoOp ==
    [][(event' \in SendEvents /\ IsBlank(input))
        => UNCHANGED <<messages, input, loading, calls, requests>>]_vars

C7_Witness ==
    /\ event = "keydownEnter"
    /\ input = <<32>>
    /\ ~loading
    /\ Len(calls) = 1
    /\ Len(messages) = 2

(* C8: at most one request or stream is in flight, and a send is initiated *)
(* only when every earlier exchange has completed.                         *)
C8_OneExchangeAtATime ==
    /\ Cardinality(InFlight) <= 1
    /\ \A i \in 1..(Len(calls) - 1) : calls[i].pc = "done"

C8_Witness ==
    /\ Len(calls) = 2
    /\ calls[1].pc = "done"
    /\ calls[2].pc = "read"
    /\ loading

(* C9: every step leaves messages as it is, appends one message, or        *)
(* replaces the last message, a SYSTEM message, by a SYSTEM message; the   *)
(* replaced message belongs to the exchange whose stream is still being    *)
(* read.                                                                   *)
C9_AppendOrReplaceLast ==
    [][\/ messages' = messages
       \/ /\ Len(messages') = Len(messages) + 1
          /\ SubSeq(messages', 1, Len(messages)) = messages
       \/ /\ Len(messages') = Len(messages)
          /\ Len(messages) > 0
          /\ SubSeq(messages', 1, Len(messages) - 1)
                = SubSeq(messages, 1, Len(messages) - 1)
          /\ Last(messages).type = SYSTEM
          /\ Last(messages').type = SYSTEM
          /\ \E i \in 1..Len(calls) :
                /\ calls[i].pc = "read"
                /\ calls[i].delivered # <<>>
                /\ ExchangeStart(i) = Len(messages) - 1]_vars

C9_Witness ==
    /\ event = "chunk"
    /\ Len(calls) = 2
    /\ Len(calls[1].delivered) = 2
    /\ Len(calls[2].delivered) = 2
    /\ Len(messages) = 4

(* C10, as claimed: the field and the button are both disabled exactly     *)
(* when loading is true or the trimmed field content is empty.             *)
C10_BothDisabledWhenLoadingOrBlank ==
    /\ dom.inputDisabled = (loading \/ IsBlank(input))
    /\ dom.buttonDisabled = (loading \/ IsBlank(input))

(* C10, amended: the button is disabled exactly when loading is true or    *)
(* the trimmed field content is empty; the field is disabled exactly when  *)
(* loading is true.                                                        *)
C10_DisabledProps ==
    /\ dom.inputDisabled = loading
    /\ dom.buttonDisabled = (loading \/ IsBlank(input))

C10_Witness ==
    /\ ~loading
    /\ input = <<32>>
    /\ ~dom.inputDisabled
    /\ dom.buttonDisabled
    /\ event = "change"

----------------------------------------------------------------------------
UserEvents == {"change", "keydown", "keydownEnter", "click"}

\* The calls that have not run to lines 81-82.
NotCompleted == {i \in 1..Len(calls) : calls[i].pc # "done"}

\* The text shown by a block: the texts of its elements, in order.
Shown(block) == Concat([k \in 1..Len(block.content) |-> block.content[k].text])

(* C11: while loading is true the field and the button are disabled, no    *)
(* user event is handled and no request is issued; loading becomes false   *)
(* only in the step that ends an exchange, by stream exhaustion or by the  *)
(* non-200 / missing-body branch.  So a stream that never ends keeps       *)
(* loading true.                                                           *)
C11_LoadingHeldUntilCompletion ==
    [][loading =>
        /\ dom.inputDisabled /\ dom.buttonDisabled
        /\ event' \notin UserEvents
        /\ requests' = requests
        /\ Len(calls') = Len(calls)
        /\ ~loading' =>
              \E i \in 1..Len(calls) :
                 /\ calls'[i].pc = "done"
                 /\ \/ event' = "readDone" /\ calls[i].pc = "read"
                    \/ /\ event' = "fetchResolve" /\ calls[i].pc = "fetch"
                       /\ (calls'[i].status # 200 \/ ~calls'[i].body)]_vars

C11_Witness ==
    /\ loading
    /\ dom.inputDisabled /\ dom.buttonDisabled
    /\ Len(calls) = 1
    /\ calls[1].pc = "read"
    /\ Len(calls[1].delivered) = MaxChunks
    /\ event = "chunk"

(* C12: after fetch or reader.read() rejects, having delivered chunks      *)
(* C1..Cj, the rejected send is the last one, no failure text is appended: *)
(* the conversation ends with the partial text C1+...+Cj as SYSTEM message *)
(* (with the USER message when j = 0), loading is true and the input       *)
(* buffer still holds the submitted text.                                  *)
C12_RejectionLeavesPartialText ==
    \A i \in 1..Len(calls) :
        calls[i].pc = "rejected" =>
            /\ i = Len(calls)
            /\ loading
            /\ input = calls[i].prompt
            /\ messages[ExchangeStart(i)] = Message(USER, calls[i].prompt)
            /\ IF calls[i].delivered = <<>>
               THEN Len(messages) = ExchangeStart(i)
               ELSE /\ Len(messages) = ExchangeStart(i) + 1
                    /\ Last(messages) =
                          Message(SYSTEM, Concat(DecodeAll(calls[i].delivered)))

C12_Witness ==
    /\ event = "readReject"
    /\ Len(calls) = 2
    /\ calls[2].pc = "rejected"
    /\ calls[2].delivered = << <<97, 195, 169>> >>
    /\ Last(messages) = Message(SYSTEM, <<97, 233>>)
    /\ loading

(* C13: the chat area holds one block per message, in conversation order;  *)
(* the block of a SYSTEM message holds its text as transformed by          *)
(* markdown, the block of a USER message shows its text literally.         *)
C13_UserTextLiteral ==
    /\ Len(chat.blocks) = Len(messages)
    /\ \A k \in 1..Len(messages) :
          /\ chat.blocks[k].user = (messages[k].type = USER)
          /\ messages[k].type = SYSTEM
                => chat.blocks[k].content = Markdown(messages[k].text)
          /\ messages[k].type = USER
                => Shown(chat.blocks[k]) = messages[k].text

(* C13, amended: the chat area holds one block per message, in             *)
(* conversation order, styled by the type of the message; the text of      *)
(* every message, USER as well as SYSTEM, is shown as transformed by       *)
(* markdown.                                                               *)
C13_AllTextThroughMarkdown ==
    /\ chat.welcome = (messages = <<>>)
    /\ Len(chat.blocks) = Len(messages)
    /\ \A k \in 1..Len(messages) :
          /\ chat.blocks[k].user = (messages[k].type = USER)
          /\ chat.blocks[k].icon = (messages[k].type = SYSTEM)
          /\ chat.blocks[k].content = Markdown(messages[k].text)

C13_Witness ==
    /\ Len(messages) = 2
    /\ messages[1] = Message(USER, <<32, 97>>)
    /\ chat.blocks[1].content = <<[tag |-> "p", text |-> <<97>>]>>
    /\ messages[2].type = SYSTEM
    /\ chat.blocks[2].content = <<[tag |-> "p", text |-> <<97, 233>>]>>

(* C14: the update for chunk Cj leaves a SYSTEM message with text          *)
(* C1+...+Cj as last message: the first chunk appends it after the USER    *)
(* message of the exchange, a later chunk replaces it in place and leaves  *)
(* the length of the conversation as it is.                                *)
C14_ChunkUpdate ==
    [][\A i \in 1..Len(calls) :
          (event' = "chunk" /\ calls'[i].delivered # calls[i].delivered)
          => LET msg == Message(SYSTEM, Concat(DecodeAll(calls'[i].delivered)))
             IN IF calls[i].delivered = <<>>
                THEN /\ Last(messages) = Message(USER, calls[i].prompt)
                     /\ messages' = Append(messages, msg)
                ELSE /\ Len(messages') = Len(messages)
                     /\ Last(messages).type = SYSTEM
                     /\ messages' =
                           Append(SubSeq(messages, 1, Len(messages) - 1), msg)]_vars

C14_Witness ==
    /\ event = "chunk"
    /\ Len(calls) = 1
    /\ calls[1].pc = "read"
    /\ calls[1].delivered = << <<97, 195, 169>>, <<195>> >>
    /\ messages = <<Message(USER, calls[1].prompt),
                    Message(SYSTEM, <<97, 233, Replacement>>)>>

(* C15: an accepted send issues exactly one POST to /chat whose prompt is  *)
(* the raw input, in the step that sets loading and appends the USER       *)
(* message; no other step issues a request.                                *)
C15_OneRequestPerSend ==
    [][IF event' \in SendEvents /\ ~IsBlank(input)
       THEN /\ requests' = Append(requests,
                  [method |-> "POST", path |-> "/chat",
                   contentType |-> "application/json", prompt |-> input])
            /\ loading'
            /\ Last(messages') = Message(USER, input)
       ELSE requests' = requests]_vars

C15_Witness ==
    /\ event = "click"
    /\ Len(requests) = 2
    /\ requests[2].prompt = <<32, 97>>
    /\ calls[1].pc = "done" /\ calls[1].status = 500
    /\ calls[2].pc = "fetch"
    /\ loading

(* C16, as claimed: loading is true exactly when a request or a stream     *)
(* read is pending.                                                        *)
C16_LoadingIffPending ==
    loading <=> InFlight # {}

(* C16, amended: loading is true exactly when a send has been accepted and *)
(* has not completed; that covers a send whose fetch or read was rejected, *)
(* for which nothing is pending and loading stays true.                    *)
C16_LoadingIffNotCompleted ==
    loading <=> NotCompleted # {}

C16_Witness ==
    /\ loading
    /\ InFlight = {}
    /\ Len(calls) = 2
    /\ calls[1].pc = "done"
    /\ calls[2].pc = "rejected"
    /\ event = "fetchReject"

(* C17: an accepted send leaves the input buffer as it is; while loading   *)
(* is true the buffer holds the submitted text, and a step taken while     *)
(* loading either leaves buffer and loading as they are or empties the     *)
(* buffer and sets loading to false together.                              *)
C17_InputKeptUntilCompletion ==
    [][/\ event' \in SendEvents => input' = input
       /\ loading =>
             /\ input = calls[Len(calls)].prompt
             /\ \/ input' = input /\ loading'
                \/ input' = <<>> /\ ~loading']_vars

C17_Witness ==
    /\ loading
    /\ input = <<32, 97>>
    /\ Len(calls) = 2
    /\ calls[2].pc = "read"
    /\ Len(calls[2].delivered) = 1

====
